---- MODULE Spec2Model ----
(***************************************************************************)
(* Model of njs-app/src/base-server-audit.js: the restify server bootstrap *)
(* (startServer and the handlers it installs) and the bunyan audit logger  *)
(* (auditLogger, its req/res serializers and the audit callback).          *)
(*                                                                         *)
(* The file holds auditLogger twice (lines 24-108 and 219-303, the same    *)
(* text); the model follows the second copy, the one in force beside       *)
(* startServer.                                                            *)
(*                                                                         *)
(* Three specifications share the variables:                               *)
(*   Spec        a process that calls startServer, serves requests and     *)
(*               meets uncaught exceptions;                                *)
(*   SpecRoutes  a process that calls startServer, registers routes on the *)
(*               returned servers and asks for the route listing;          *)
(*   SpecAudit   direct calls of the callback returned by auditLogger.     *)
(***************************************************************************)
EXTENDS Integers, Sequences, FiniteSets, TLC

VARIABLES
    servers,        \* the servers created by startServer, in creation order
    procListeners,  \* process.on("uncaughtException") listeners, in order
    logs,           \* entries written through the loggers given to startServer
    exitCode,       \* NotExited, or the code given to process.exit
    responses,      \* responses fully sent to clients, in completion order
    auditLog,       \* entries emitted by "after" listeners, in emission order
    registrations,  \* the route registrations made so far, in call order
    nEv,            \* number of requests / exceptions so far
    last,           \* the latest operation with its inputs and outcome
    options,        \* the options given to auditLogger
    call,           \* the arguments of the latest direct audit call
    emitted,        \* the entries the latest audit call wrote with log.info
    auditResult     \* "none", "true" (returned true) or "TypeError" (threw)

vars == <<servers, procListeners, logs, exitCode, responses, auditLog,
          registrations, nEv, last, options, call, emitted, auditResult>>

serverVars == <<servers, procListeners, logs, exitCode, responses, auditLog,
                registrations, nEv, last>>

auditVars == <<options, call, emitted, auditResult>>

----------------------------------------------------------------------------
(* Bounds *)

MaxTimers == 2      \* timing samples per request
MaxServers == 2     \* successful startServer calls
MaxRoutes == 2      \* routes the application registers on top of the two built in
MaxEvents == 2      \* requests and exceptions
MaxListings == 1    \* requests for the route listing

----------------------------------------------------------------------------
(* JavaScript values *)

\* a value that can sit in res._body or in a log record's body
Undefined == [kind |-> "undefined", id |-> "", body |-> ""]

Plain(id) == [kind |-> "plain", id |-> id, body |-> ""]

\* a plain object that happens to carry a .body property of its own
PlainWithBody(id, b) == [kind |-> "plain", id |-> id, body |-> b]

\* an instance of HttpError; its .body holds the payload sent to the client
HttpErrorValue(id, b) == [kind |-> "HttpError", id |-> id, body |-> b]

\* x.body
BodyOf(x) == IF x.body = "" THEN Undefined ELSE Plain(x.body)

\* x instanceof HttpError
InstanceOfHttpError(x) == x.kind = "HttpError"

\* the empty object {}
EmptyObject == [k \in {} |-> 0]

\* obj[k] = v
SetKey(obj, k, v) == [x \in (DOMAIN obj) \cup {k} |-> IF x = k THEN v ELSE obj[x]]

\* Math.floor(q) for the rational q = num / den with num >= 0 and den > 0
MathFloor(num, den) == num \div den

----------------------------------------------------------------------------
(* auditLogger: the serializers of the child logger *)

\* a conversion that rounds to the nearest millisecond in place of Math.floor
hrtimeToMsRound(t) == MathFloor((1000 * t[1]) * 1000000 + t[2] + 500000, 1000000)

\* Math.floor((1000 * t[0]) + (t[1] / 1000000)), t = [seconds, nanoseconds]
hrtimeToMs(t) == MathFloor((1000 * t[1]) * 1000000 + t[2], 1000000)

\* (req.timers || []).forEach(function (time) { timers[time.name] = _t })
RECURSIVE forEachTimer(_, _)
forEachTimer(timers, samples) ==
    IF samples = <<>> THEN timers
    ELSE forEachTimer(SetKey(timers, Head(samples).name, hrtimeToMs(Head(samples).time)),
                      Tail(samples))

\* req.timers || []
timersOrEmpty(req) == IF req.hasTimers THEN req.timers ELSE <<>>

auditRequestSerializer(req) ==
    IF ~req.present
    THEN [isFalse |-> TRUE, obj |-> EmptyObject]
    ELSE [isFalse |-> FALSE,
          obj |-> [method |-> req.method,
                   url |-> req.url,
                   timers |-> forEachTimer(EmptyObject, timersOrEmpty(req))]]

\* a serializer that tells the wrapper from other objects by its .body property
auditResponseSerializerDuck(opts, res) ==
    IF ~res.present
    THEN [isFalse |-> TRUE, obj |-> EmptyObject]
    ELSE LET body == IF opts.body = "true"
                     THEN IF res._body.body # ""
                          THEN BodyOf(res._body)
                          ELSE res._body
                     ELSE Undefined
         IN [isFalse |-> FALSE,
             obj |-> [statusCode |-> res.statusCode, body |-> body]]

\* a serializer that takes any truthy options.body for enabled
auditResponseSerializerTruthy(opts, res) ==
    IF ~res.present
    THEN [isFalse |-> TRUE, obj |-> EmptyObject]
    ELSE LET body == IF opts.body \in {"true", "truthy"}
                     THEN IF InstanceOfHttpError(res._body)
                          THEN BodyOf(res._body)
                          ELSE res._body
                     ELSE Undefined
         IN [isFalse |-> FALSE,
             obj |-> [statusCode |-> res.statusCode, body |-> body]]

auditResponseSerializer(opts, res) ==
    IF ~res.present
    THEN [isFalse |-> TRUE, obj |-> EmptyObject]
    ELSE LET body == IF opts.body = "true"
                     THEN IF InstanceOfHttpError(res._body)
                          THEN BodyOf(res._body)
                          ELSE res._body
                     ELSE Undefined
         IN [isFalse |-> FALSE,
             obj |-> [statusCode |-> res.statusCode, body |-> body]]

\* the err serializer of the child logger: the base logger's when it has one,
\* bunyan.stdSerializers.err otherwise
errSerializer(opts) ==
    IF opts.logHasErrSerializer THEN "log.serializers.err" ELSE "bunyan.stdSerializers.err"

\* log.info(obj, ...) of the child logger: one record, each field through its serializer
logInfo(opts, obj) ==
    [audit |-> TRUE,
     level |-> "info",
     req |-> auditRequestSerializer(obj.req),
     res |-> auditResponseSerializer(opts, obj.res),
     err |-> [serializer |-> errSerializer(opts), value |-> obj.err],
     latency |-> obj.latency]

\* typeof (latency) !== 'number'
NotANumber(v) == v.t # "number"

\* a latency that takes any present Response-Time, numeric string included
latencyOfLoose(req, res, now) ==
    IF res.responseTime.t = "undefined" THEN now - req._time ELSE res.responseTime.n

\* res.get('Response-Time'), replaced by Date.now() - req._time unless a number
latencyOf(req, res, now) ==
    IF NotANumber(res.responseTime) THEN now - req._time ELSE res.responseTime.n

\* audit(req, res, route, err) at time now: the records written and the outcome.
\* res.get on an absent res and req._time on an absent req raise a TypeError.
audit(opts, req, res, route, err, now) ==
    IF ~res.present
    THEN [outcome |-> "TypeError", entries |-> <<>>]
    ELSE IF NotANumber(res.responseTime) /\ ~req.present
    THEN [outcome |-> "TypeError", entries |-> <<>>]
    ELSE [outcome |-> "true",
          entries |-> <<logInfo(opts, [req |-> req, res |-> res, err |-> err,
                                       latency |-> latencyOf(req, res, now)])>>]

----------------------------------------------------------------------------
(* The values a caller can hand to auditLogger and to the audit callback *)

\* options.body: exactly true, another truthy value, false, or not given
BodyFlags == {"true", "truthy", "false", "undefined"}

Options == [body : BodyFlags, logHasErrSerializer : BOOLEAN]

\* named timing samples; time is [seconds, nanoseconds]
Samples ==
    { [name |-> "parse", time |-> <<0, 999999>>],
      [name |-> "parse", time |-> <<1, 2500000>>],
      [name |-> "handler", time |-> <<2, 0>>] }

TimerSeqs == UNION { [1..k -> Samples] : k \in 0..MaxTimers }

\* an absent (null) request
NoReq == [present |-> FALSE, method |-> "", url |-> "", _time |-> 0,
          hasTimers |-> FALSE, timers |-> <<>>]

Reqs ==
    {NoReq}
    \cup { [present |-> TRUE, method |-> "GET", url |-> "/a", _time |-> 990,
            hasTimers |-> FALSE, timers |-> <<>>] }
    \cup { [present |-> TRUE, method |-> "GET", url |-> "/a", _time |-> 990,
            hasTimers |-> TRUE, timers |-> ts] : ts \in TimerSeqs }

Bodies ==
    { Undefined, Plain("P"), PlainWithBody("Q", "inner"),
      HttpErrorValue("W", "X"), HttpErrorValue("W0", "") }

\* what res.get('Response-Time') returns: nothing, the number 12 or the string "12"
ResponseTimes ==
    { [t |-> "undefined", n |-> 0], [t |-> "number", n |-> 12], [t |-> "string", n |-> 12] }

\* an absent (null) response
NoRes == [present |-> FALSE, statusCode |-> 0, _body |-> Undefined,
          responseTime |-> [t |-> "undefined", n |-> 0]]

Ress ==
    {NoRes}
    \cup [present : {TRUE}, statusCode : {200, 404}, _body : Bodies,
          responseTime : ResponseTimes]

Errs == {"none", "E"}

\* values of Date.now()
Nows == {1000, 1007}

NoCall == [made |-> FALSE, req |-> NoReq, res |-> NoRes, route |-> "", err |-> "none",
           now |-> 0]

DefaultOptions == [body |-> "undefined", logHasErrSerializer |-> FALSE]

----------------------------------------------------------------------------
(* Initial states *)

NotExited == -1

NoOp == [op |-> "none", appName |-> "", port |-> 0, logger |-> "", outcome |-> "",
         server |-> 0, ev |-> 0]

InitServer ==
    /\ servers = <<>>
    /\ procListeners = <<>>
    /\ logs = <<>>
    /\ exitCode = NotExited
    /\ responses = <<>>
    /\ auditLog = <<>>
    /\ registrations = <<>>
    /\ nEv = 0
    /\ last = NoOp

\* audit = auditLogger(options) for some options
InitAudit ==
    /\ InitServer
    /\ options \in Options
    /\ call = NoCall
    /\ emitted = <<>>
    /\ auditResult = "none"


----------------------------------------------------------------------------
(* The framework: a restify server, its router and its events *)

Methods == {"GET", "PUT", "DELETE", "POST", "HEAD"}

\* restify.createServer({name: appName, log: logger})
createServer(appName, logger) ==
    [name |-> appName, log |-> logger, port |-> 0, listening |-> "no",
     pre |-> <<>>, use |-> <<>>,
     routes |-> [m \in Methods |-> <<>>],
     on |-> [uncaughtException |-> <<>>, after |-> <<>>]]

\* server.listen(port, callback): the callback runs later, once the socket is bound
listen(server, port) == [server EXCEPT !.port = port, !.listening = "pending"]

\* server.pre(handler)
pre(server, handler) == [server EXCEPT !.pre = Append(@, handler)]

\* server.use(handler)
use(server, handler) == [server EXCEPT !.use = Append(@, handler)]

\* the name the router gives a route: the path without its non-word characters
\* (the method the router puts in front is left out)
routeName(method, path) ==
    CASE path = "/_status" -> "_status"
      [] path = "/api/admin/_routes" -> "apiadmin_routes"
      [] path = "/a" -> "a"
      [] path = "/b" -> "b"
      [] OTHER -> "route"

\* server.get / put / del / post / head (path, handler): the router appends the route
mount(server, method, path, handler) ==
    [server EXCEPT !.routes[method] =
        Append(@, [name |-> routeName(method, path),
                   spec |-> [path |-> path, method |-> method],
                   handler |-> handler])]

\* server.on(event, listener)
on(server, event, listener) == [server EXCEPT !.on[event] = Append(@, listener)]

\* res.send(body) of an Error: the error's status code, 500 when it has none
statusOfError(err) == IF err.statusCode = 0 THEN 500 ELSE err.statusCode

\* what a handler can throw
ThrownErrs ==
    { [name |-> "Error", statusCode |-> 0], [name |-> "NotFoundError", statusCode |-> 404] }

NoErr == [name |-> "", statusCode |-> 0]

----------------------------------------------------------------------------
(* The running process: what handlers act on.  Nothing runs after process.exit. *)

Exited(p) == p.exitCode # NotExited

\* logger[level](err, msg)
logAt(p, level, logger, msg, ev) ==
    IF Exited(p) THEN p
    ELSE [p EXCEPT !.logs = Append(@, [level |-> level, logger |-> logger,
                                        msg |-> msg, ev |-> ev])]

\* process.exit(code)
processExit(p, code) == IF Exited(p) THEN p ELSE [p EXCEPT !.exitCode = code]

\* res.send(...): the response goes out to the client
send(p, response) ==
    IF Exited(p) THEN p ELSE [p EXCEPT !.responses = Append(@, response)]

Response(ev, server, statusCode, kind, routes, err) ==
    [ev |-> ev, server |-> server, statusCode |-> statusCode, kind |-> kind,
     routes |-> routes, err |-> err]

----------------------------------------------------------------------------
(* startServer and the handlers it installs *)

\* function _getServerStatus: res.send({status: "OK", info: server.getDebugInfo()})
getServerStatus(p, i, ev) ==
    send(p, Response(ev, i, 200, "status", EmptyObject, NoErr))

ListedMethods == {"GET", "PUT", "DELETE", "POST"}

\* result[key].push(value.name) in place of value.spec.path
listDefinedRoutesByName(server) ==
    [key \in ListedMethods |->
        [k \in 1..Len(server.routes[key]) |-> server.routes[key][k].name]]

\* function _listDefinedRoutes: for each key of result, in the order of
\* server.router.routes[key], result[key].push(value.spec.path)
listDefinedRoutes(server) ==
    [key \in ListedMethods |->
        [k \in 1..Len(server.routes[key]) |-> server.routes[key][k].spec.path]]

\* function _initCommonRoutes(server)
initCommonRoutes(server) ==
    mount(mount(server, "GET", "/_status", "_getServerStatus"),
          "GET", "/api/admin/_routes", "_listDefinedRoutes")

\* a handler that answers nothing
serverUncaughtExpNoSend(p, logger, i, err, ev) ==
    logAt(p, "error", logger, "uncaughtException", ev)

\* function serverUncaughtExp(req, res, route, err): logger.error, then res.send(err)
serverUncaughtExp(p, logger, i, err, ev) ==
    send(logAt(p, "error", logger, "uncaughtException", ev),
         Response(ev, i, statusOfError(err), "error", EmptyObject, err))

\* a handler that logs and goes on
processUncaughtExpNoExit(p, logger, err, ev) ==
    logAt(p, "fatal", logger, "Uncaught fatal exception, process will exit now.", ev)

\* function processUncaughtExp(err): logger.fatal, then process.exit(1)
processUncaughtExp(p, logger, err, ev) ==
    processExit(logAt(p, "fatal", logger,
                      "Uncaught fatal exception, process will exit now.", ev), 1)

\* function _initErrorHandler(server), the server.on half
initErrorHandler(server, logger) ==
    on(server, "uncaughtException", [fn |-> "serverUncaughtExp", logger |-> logger])

\* function _initErrorHandler(server), the process.on half
initProcessHandler(listeners, logger) ==
    Append(listeners, [fn |-> "processUncaughtExp", logger |-> logger])

\* !v for a string or an object ("" stands for the empty string and for null)
Falsy(v) == v = ""

\* !n for a number
FalsyNumber(n) == n = 0

StartFailure(listeners) ==
    [outcome |-> "TypeError", created |-> FALSE, server |-> createServer("", ""),
     procListeners |-> listeners]

\* the server of lines 150-161: created, told to listen, middleware, routes, handlers
configured(appName, port, logger) ==
    initErrorHandler(
        initCommonRoutes(
            use(use(use(use(pre(listen(createServer(appName, logger), port),
                                "cors.preflight"),
                            "cors.actual"),
                        "acceptParser"),
                    "queryParser"),
                "bodyParser")),
        logger)

\* startServer without the test of port
startServerNoPortCheck(appName, port, logger, listeners) ==
    IF Falsy(appName) THEN StartFailure(listeners)
    ELSE IF Falsy(logger) THEN StartFailure(listeners)
    ELSE [outcome |-> "server", created |-> TRUE,
          server |-> configured(appName, port, logger),
          procListeners |-> initProcessHandler(listeners, logger)]

\* function startServer(appName, port, logger)
startServer(appName, port, logger, listeners) ==
    IF Falsy(appName) THEN StartFailure(listeners)
    ELSE IF Falsy(logger) THEN StartFailure(listeners)
    ELSE IF FalsyNumber(port) THEN StartFailure(listeners)
    ELSE [outcome |-> "server", created |-> TRUE,
          server |-> configured(appName, port, logger),
          procListeners |-> initProcessHandler(listeners, logger)]

----------------------------------------------------------------------------
(* SpecAudit: direct calls of the audit callback *)

\* the hook's caller invokes audit(req, res, route, err) while Date.now() is now
Audit(req, res, err, now) ==
    LET r == audit(options, req, res, "route", err, now) IN
    /\ ~call.made
    /\ call' = [made |-> TRUE, req |-> req, res |-> res, route |-> "route",
                err |-> err, now |-> now]
    /\ emitted' = r.entries
    /\ auditResult' = r.outcome
    /\ UNCHANGED <<options, serverVars>>

\* control is back with the caller, the records are with the logger's streams
AuditReturn ==
    /\ call.made
    /\ call' = NoCall
    /\ emitted' = <<>>
    /\ auditResult' = "none"
    /\ UNCHANGED <<options, serverVars>>

NextAudit ==
    \/ \E req \in Reqs, res \in Ress, err \in Errs, now \in Nows : Audit(req, res, err, now)
    \/ AuditReturn

SpecAudit == InitAudit /\ [][NextAudit]_vars


----------------------------------------------------------------------------
(* Spec: the process *)

AppNames == {"", "app"}

Ports == {0, 8080}

\* "" is an absent logger
Loggers == {"", "log"}

\* the routes the application registers on a returned server
AppRoutes == { <<"GET", "/a">>, <<"POST", "/b">>, <<"HEAD", "/a">> }

BuiltInPaths == {"/_status", "/api/admin/_routes"}

Running == exitCode = NotExited

Registered(i, method, path) ==
    \E k \in 1..Len(registrations) :
        registrations[k] = [server |-> i, method |-> method, path |-> path]

AppRegistrations ==
    Cardinality({ k \in 1..Len(registrations) : registrations[k].path \notin BuiltInPaths })

\* the server answers requests
CanServe(i) == Running /\ i \in 1..Len(servers) /\ servers[i].listening = "listening"

Process == [logs |-> logs, exitCode |-> exitCode, responses |-> responses]

\* the req and res of a finished request, as the "after" listeners get them
AfterReq == [present |-> TRUE, method |-> "GET", url |-> "/", _time |-> 0,
             hasTimers |-> TRUE, timers |-> <<>>]

AfterRes(statusCode) ==
    [present |-> TRUE, statusCode |-> statusCode, _body |-> Undefined,
     responseTime |-> [t |-> "number", n |-> 1]]

\* server.emit("after", req, res, route, err): each listener in turn
RECURSIVE emitAfter(_, _, _, _)
emitAfter(listeners, statusCode, err, ev) ==
    IF listeners = <<>> THEN <<>>
    ELSE LET r == audit(Head(listeners).options, AfterReq, AfterRes(statusCode),
                        "route", err.name, 0)
         IN [k \in 1..Len(r.entries) |-> [ev |-> ev, entry |-> r.entries[k]]]
            \o emitAfter(Tail(listeners), statusCode, err, ev)

\* server.emit("uncaughtException", req, res, route, err): each listener in turn
RECURSIVE emitServerUncaught(_, _, _, _, _)
emitServerUncaught(listeners, p, i, err, ev) ==
    IF listeners = <<>> THEN p
    ELSE emitServerUncaught(Tail(listeners),
                            serverUncaughtExp(p, Head(listeners).logger, i, err, ev),
                            i, err, ev)

\* process.emit("uncaughtException", err): each listener in turn
RECURSIVE emitProcessUncaught(_, _, _, _)
emitProcessUncaught(listeners, p, err, ev) ==
    IF listeners = <<>> THEN p
    ELSE emitProcessUncaught(Tail(listeners),
                             processUncaughtExp(p, Head(listeners).logger, err, ev),
                             err, ev)

Op(op, appName, port, logger, outcome, server, ev) ==
    [op |-> op, appName |-> appName, port |-> port, logger |-> logger,
     outcome |-> outcome, server |-> server, ev |-> ev]

\* the program calls startServer(appName, port, logger)
StartServer(appName, port, logger) ==
    LET r == startServer(appName, port, logger, procListeners)
        i == Len(servers) + 1
    IN /\ Running
       /\ Len(servers) < MaxServers
       /\ servers' = IF r.created THEN Append(servers, r.server) ELSE servers
       /\ procListeners' = r.procListeners
       /\ registrations' =
            IF r.created
            THEN registrations
                 \o << [server |-> i, method |-> "GET", path |-> "/_status"],
                       [server |-> i, method |-> "GET", path |-> "/api/admin/_routes"] >>
            ELSE registrations
       /\ last' = Op("startServer", appName, port, logger, r.outcome,
                     IF r.created THEN i ELSE 0, 0)
       /\ UNCHANGED <<logs, exitCode, responses, auditLog, nEv, auditVars>>

\* the callback given to server.listen: logger.info('Server started %s', server.url)
ListenCallback(i) ==
    /\ Running
    /\ i \in 1..Len(servers)
    /\ servers[i].listening = "pending"
    /\ servers' = [servers EXCEPT ![i].listening = "listening"]
    /\ logs' = logAt(Process, "info", servers[i].log, "Server started", 0).logs
    /\ last' = Op("listenCallback", "", 0, "", "", i, 0)
    /\ UNCHANGED <<procListeners, exitCode, responses, auditLog, registrations, nEv,
                   auditVars>>

\* the application registers a route on the server that startServer returned
Register(i, method, path) ==
    /\ Running
    /\ i \in 1..Len(servers)
    /\ AppRegistrations < MaxRoutes
    /\ ~Registered(i, method, path)
    /\ servers' = [servers EXCEPT ![i] = mount(@, method, path, "appHandler")]
    /\ registrations' =
          Append(registrations, [server |-> i, method |-> method, path |-> path])
    /\ last' = Op("register", "", 0, "", "", i, 0)
    /\ UNCHANGED <<procListeners, logs, exitCode, responses, auditLog, nEv, auditVars>>

\* what a finished request leaves behind: the response, then the "after" event
Finish(p, i, ev, err) ==
    /\ logs' = p.logs
    /\ exitCode' = p.exitCode
    /\ responses' = p.responses
    /\ auditLog' =
          IF Len(p.responses) > Len(responses)
          THEN auditLog \o emitAfter(servers[i].on.after,
                                     p.responses[Len(p.responses)].statusCode, err, ev)
          ELSE auditLog
    /\ nEv' = ev

\* GET /_status
GetStatus(i) ==
    /\ CanServe(i)
    /\ nEv < MaxEvents
    /\ Finish(getServerStatus(Process, i, nEv + 1), i, nEv + 1, NoErr)
    /\ last' = Op("getStatus", "", 0, "", "", i, nEv + 1)
    /\ UNCHANGED <<servers, procListeners, registrations, auditVars>>

\* GET /api/admin/_routes
ListRoutes(i) ==
    /\ CanServe(i)
    /\ nEv < MaxListings
    /\ Finish(send(Process, Response(nEv + 1, i, 200, "routes",
                                     listDefinedRoutes(servers[i]), NoErr)),
              i, nEv + 1, NoErr)
    /\ last' = Op("listRoutes", "", 0, "", "", i, nEv + 1)
    /\ UNCHANGED <<servers, procListeners, registrations, auditVars>>

\* a handler of a request to server i throws err; the server emits "uncaughtException"
HandlerThrows(i, err) ==
    /\ CanServe(i)
    /\ nEv < MaxEvents
    /\ Finish(emitServerUncaught(servers[i].on.uncaughtException, Process, i, err,
                                 nEv + 1),
              i, nEv + 1, err)
    /\ last' = Op("handlerThrows", "", 0, "", err.name, i, nEv + 1)
    /\ UNCHANGED <<servers, procListeners, registrations, auditVars>>

\* err is thrown outside any request; the process emits "uncaughtException".
\* With no listener the runtime itself ends the process with code 1.
ProcessThrows(err) ==
    LET p == emitProcessUncaught(procListeners, Process, err, nEv + 1) IN
    /\ Running
    /\ nEv < MaxEvents
    /\ logs' = p.logs
    /\ exitCode' = IF procListeners = <<>> THEN 1 ELSE p.exitCode
    /\ nEv' = nEv + 1
    /\ last' = Op("processThrows", "", 0, "", err.name, 0, nEv + 1)
    /\ UNCHANGED <<servers, procListeners, responses, auditLog, registrations, auditVars>>

InitIdleAudit ==
    /\ options = DefaultOptions
    /\ call = NoCall
    /\ emitted = <<>>
    /\ auditResult = "none"

Init == InitServer /\ InitIdleAudit

\* a process that starts servers, serves requests and meets exceptions
Next ==
    \/ \E a \in AppNames, p \in Ports, l \in Loggers : StartServer(a, p, l)
    \/ \E i \in 1..MaxServers : ListenCallback(i)
    \/ \E i \in 1..MaxServers : GetStatus(i)
    \/ \E i \in 1..MaxServers, e \in ThrownErrs : HandlerThrows(i, e)
    \/ \E e \in ThrownErrs : ProcessThrows(e)

\* a process that starts servers, registers routes and lists them
NextRoutes ==
    \/ \E a \in AppNames, p \in Ports, l \in Loggers : StartServer(a, p, l)
    \/ \E i \in 1..MaxServers : ListenCallback(i)
    \/ \E i \in 1..MaxServers, r \in AppRoutes : Register(i, r[1], r[2])
    \/ \E i \in 1..MaxServers : ListRoutes(i)

SpecRoutes == Init /\ [][NextRoutes]_vars

Spec == Init /\ [][Next]_vars

----------------------------------------------------------------------------
(* Claims about the audit callback and its serializers (SpecAudit) *)

\* m is floor(s*1000 + n/1e6): m milliseconds fit in the sample, m+1 do not
IsFloorMs(m, t) ==
    /\ m * 1000000 <= t[1] * 1000000000 + t[2]
    /\ t[1] * 1000000000 + t[2] < (m + 1) * 1000000

\* the call wrote a record for a request that is an object
SerializedReq == call.made /\ emitted # <<>> /\ call.req.present

\* the call wrote a record for a response that is an object
SerializedRes == call.made /\ emitted # <<>> /\ call.res.present

NameRepeatsLater(S, i) == \E j \in (i + 1)..Len(S) : S[j].name = S[i].name

\* C3 as stated: every sample of the request, a repeated phase name included,
\* has timers[name] = floor(s*1000 + n/1e6); the keys of timers are exactly
\* the phase names of the input; no samples give the empty mapping.
C3_EverySampleInTimers ==
    SerializedReq =>
        LET S == timersOrEmpty(call.req)
            r == emitted[1].req.obj
        IN /\ "timers" \in DOMAIN r
           /\ DOMAIN r.timers = { S[i].name : i \in 1..Len(S) }
           /\ \A i \in 1..Len(S) : IsFloorMs(r.timers[S[i].name], S[i].time)
           /\ (S = <<>> => r.timers = EmptyObject)

\* C3 amended: timers[name] = floor(s*1000 + n/1e6) for the last sample of
\* each phase name; the keys of timers are exactly the phase names of the
\* input; no samples give the empty mapping (present, not null).
C3_LastSampleInTimers ==
    SerializedReq =>
        LET S == timersOrEmpty(call.req)
            r == emitted[1].req.obj
        IN /\ ~emitted[1].req.isFalse
           /\ "timers" \in DOMAIN r
           /\ DOMAIN r.timers = { S[i].name : i \in 1..Len(S) }
           /\ \A i \in 1..Len(S) :
                ~NameRepeatsLater(S, i) => IsFloorMs(r.timers[S[i].name], S[i].time)
           /\ (S = <<>> => r.timers = EmptyObject)

\* a request whose samples repeat a phase name with different durations got serialized
C3_Witness ==
    /\ SerializedReq
    /\ \E i, j \in 1..Len(timersOrEmpty(call.req)) :
          /\ i < j
          /\ call.req.timers[i].name = call.req.timers[j].name
          /\ call.req.timers[i].time # call.req.timers[j].time
    /\ emitted[1].req.obj.timers["parse"] = 1002

\* C4 as stated: with options.body other than exactly true, the record the
\* res serializer returns has no body field.
C4_NoBodyField ==
    (SerializedRes /\ options.body # "true") =>
        "body" \notin DOMAIN emitted[1].res.obj

\* C4 amended: with options.body other than exactly true, the body property
\* of the record the res serializer returns is undefined whatever the
\* response's payload is (the key itself is there).
C4_BodyUndefined ==
    (SerializedRes /\ options.body # "true") =>
        /\ DOMAIN emitted[1].res.obj = {"statusCode", "body"}
        /\ emitted[1].res.obj.body = Undefined

\* capture is off by a truthy flag and an error-typed payload was serialized
C4_Witness ==
    /\ SerializedRes
    /\ options.body = "truthy"
    /\ InstanceOfHttpError(call.res._body)
    /\ emitted[1].res.obj.body = Undefined

\* C5: with options.body exactly true, body is the wrapper's embedded .body
\* when res._body is an HttpError (never the wrapper), the raw res._body
\* otherwise; statusCode is always the response's status code.
C5_BodyCaptured ==
    /\ SerializedRes => emitted[1].res.obj.statusCode = call.res.statusCode
    /\ (SerializedRes /\ options.body = "true") =>
          LET b == call.res._body
              r == emitted[1].res.obj
          IN /\ b.kind = "HttpError" =>
                   /\ r.body # b
                   /\ r.body.kind # "HttpError"
                   /\ r.body.id = b.body
             /\ b.kind # "HttpError" => r.body = b

\* capture is on and an error wrapper with payload X was logged as X
C5_Witness ==
    /\ SerializedRes
    /\ options.body = "true"
    /\ call.res._body = HttpErrorValue("W", "X")
    /\ emitted[1].res.obj.body = Plain("X")

\* C6: the emitted latency is the Response-Time value when that is a number,
\* and now - req._time when it is absent or not of number type.
C6_Latency ==
    (call.made /\ emitted # <<>>) =>
        LET rt == call.res.responseTime IN
        /\ rt.t = "number" => emitted[1].latency = rt.n
        /\ rt.t # "number" => emitted[1].latency = call.now - call.req._time

\* a response whose Response-Time is the string "12" got the computed latency
C6_Witness ==
    /\ call.made
    /\ emitted # <<>>
    /\ call.res.responseTime = [t |-> "string", n |-> 12]
    /\ call.now = 1007
    /\ emitted[1].latency = 17

\* C10: every call of audit, with req or res absent too, returns true without
\* throwing and writes exactly one info record holding req, res, err and
\* latency, an absent req or res showing as false.
C10_AuditNeverThrows ==
    call.made =>
        /\ auditResult = "true"
        /\ Len(emitted) = 1
        /\ emitted[1].level = "info"
        /\ {"req", "res", "err", "latency"} \subseteq DOMAIN emitted[1]
        /\ emitted[1].req.isFalse = ~call.req.present
        /\ emitted[1].res.isFalse = ~call.res.present

----------------------------------------------------------------------------
(* Claims about startServer and the handlers it installs (Spec, SpecRoutes) *)

\* the entries of the given level written for event ev
CountLogs(level, ev) ==
    Cardinality({ k \in 1..Len(logs) : logs[k].level = level /\ logs[k].ev = ev })

\* the responses sent for event ev
ResponsesTo(ev) == { k \in 1..Len(responses) : responses[k].ev = ev }

\* the audit entries emitted for event ev
AuditsOf(ev) == { k \in 1..Len(auditLog) : auditLog[k].ev = ev }

\* C1: a startServer call with appName, port or logger missing/falsy fails
\* with a TypeError and leaves everything as it was: no server is created, no
\* socket is set to listen, no handler, route or middleware is registered.
C1_MissingParamFails ==
    [][ (/\ last'.op = "startServer"
         /\ \/ Falsy(last'.appName)
            \/ FalsyNumber(last'.port)
            \/ Falsy(last'.logger))
        => /\ last'.outcome = "TypeError"
           /\ UNCHANGED <<servers, procListeners, registrations, logs>> ]_vars

\* a call without a port failed after an earlier call had created a server
C1_Witness ==
    /\ last.op = "startServer"
    /\ last.appName = "app" /\ last.logger = "log" /\ last.port = 0
    /\ last.outcome = "TypeError"
    /\ Len(servers) = 1
    /\ Len(procListeners) = 1

\* C2: the audit callback is the "after" listener of every server that
\* startServer returned and runs once per completed request: each response
\* has exactly one audit entry, and the entries come in the order in which
\* the responses completed.
C2_AuditOncePerResponse ==
    /\ \A k \in 1..Len(responses) :
          /\ servers[responses[k].server].on.after # <<>>
          /\ Cardinality(AuditsOf(responses[k].ev)) = 1
    /\ Len(auditLog) = Len(responses)
    /\ \A k \in 1..Len(auditLog) : auditLog[k].ev = responses[k].ev

\* C7: an exception thrown in a request handler gives exactly one error
\* entry and no fatal entry, the error goes to the client as a non-2xx
\* response, the process does not exit and the server keeps serving.
C7_HandlerExceptionContained ==
    last.op = "handlerThrows" =>
        /\ CountLogs("error", last.ev) = 1
        /\ CountLogs("fatal", last.ev) = 0
        /\ Cardinality(ResponsesTo(last.ev)) = 1
        /\ \A k \in ResponsesTo(last.ev) :
              /\ responses[k].kind = "error"
              /\ responses[k].err.name = last.outcome
              /\ responses[k].server = last.server
              /\ responses[k].statusCode \notin 200..299
        /\ exitCode = NotExited
        /\ CanServe(last.server)

\* after a handler exception the same server answered another request with 200
C7_Witness ==
    /\ Len(responses) = 2
    /\ responses[1].kind = "error"
    /\ responses[1].statusCode = 500
    /\ CountLogs("error", responses[1].ev) = 1
    /\ responses[2].server = responses[1].server
    /\ responses[2].statusCode = 200
    /\ exitCode = NotExited

\* the process ended through an exception that no request owns
FatalShutdown == last.op = "processThrows" /\ procListeners # <<>>

\* C8: once startServer has succeeded (once or more often), an exception
\* outside any request gives exactly one fatal entry and then process.exit
\* with a non-zero code; the fatal entry is written before the exit, and
\* nothing but the process-level handler ends the process.
C8_FatalThenExit ==
    /\ [](FatalShutdown =>
            /\ CountLogs("fatal", last.ev) = 1
            /\ logs[Len(logs)].level = "fatal"
            /\ exitCode # NotExited
            /\ exitCode # 0)
    /\ [][exitCode' # exitCode => last'.op = "processThrows"]_vars

\* two startServer calls had installed two process-level handlers when the
\* exception came
C8_Witness ==
    /\ FatalShutdown
    /\ Len(procListeners) = 2
    /\ CountLogs("fatal", last.ev) = 1
    /\ exitCode = 1

\* the path patterns registered on server i for method m, in registration order
RegisteredPaths(i, m) ==
    LET ofMethod(r) == r.server = i /\ r.method = m
        sel == SelectSeq(registrations, ofMethod)
    IN [k \in 1..Len(sel) |-> sel[k].path]

====
